---- MODULE Spec2Model ----
(***************************************************************************)
(* AudioGhost AI: the Celery worker that runs separate_audio_task, its     *)
(* process-wide model cache, the result backend the status API reads, and  *)
(* the artifacts written under outputs/.                                   *)
(*                                                                         *)
(* One worker process executes one task at a time.  Every task is a        *)
(* sequential program; pc[j] is its position, loc[j] its local variables.  *)
(* A library call that can raise (login, from_pretrained, .to, load,       *)
(* separate, save) either succeeds or raises: both outcomes are steps.     *)
(***************************************************************************)
EXTENDS Integers, Sequences, FiniteSets, TLC

\* ------------------------------------------------------------------ bounds
MaxJobs == 1
\* processor.audio_sampling_rate, scaled down (samples per second)
SampleRate == 2
\* number of whole chunks the longest modelled clip spans
MaxChunks == 1
\* number of whole chunks the longest clip of the long-clip runs spans
MaxLongChunks == 49

\* the task ids the model tracks at one time
Jobs == 1..MaxJobs

\* ------------------------------------------------------- program constants
CHUNK_DURATION == 25
MAX_CHUNK_SAMPLES == SampleRate * CHUNK_DURATION

\* model_size: the size the batch endpoint sends and the task's default; "large"
\* differs from them in the key only
ModelSizes == {"small", "base"}
Modes == {"extract", "remove"}

\* clip lengths in samples: around one second, around each chunk boundary
AudioLens ==
  {SampleRate} \cup
  UNION {{k * MAX_CHUNK_SAMPLES, k * MAX_CHUNK_SAMPLES + 1,
          k * MAX_CHUNK_SAMPLES + SampleRate} : k \in 1..MaxChunks}

\* clip lengths of the long-clip runs: the short ones, and k whole chunks and
\* one more second
LongLens ==
  AudioLens \cup {k * MAX_CHUNK_SAMPLES + SampleRate : k \in 1..MaxLongChunks}

\* chunk_duration values a client can send: below, at and above the clamp
\* limits of create_separation_task, and the default
ChunkDurations == {1, 5, 25, 60, 90}

\* ------------------------------------------------------------------ state
VARIABLES
  model_cache,      \* _model_cache: cache_key -> model handle
  processor_cache,  \* _processor_cache: model_name -> processor handle
  cuda,             \* torch.cuda.is_available()
  gpu_reserved,     \* the CUDA caching allocator holds blocks it has not returned
  token_file,       \* backend/.hf_token exists
  files,            \* complete artifacts under outputs/: <<task_id, role>> -> content
  args,             \* the arguments each task was submitted with
  pc,               \* position of each task
  loc,              \* local variables of each task
  cstate,           \* result backend: state of each task id
  cinfo,            \* result backend: meta / result / exception of each task id
  propagated,       \* errors that left separate_audio_task, per task
  hist,             \* per task, for the properties: what happened so far
  last              \* the task the worker began most recently (0: none)

vars == <<model_cache, processor_cache, cuda, gpu_reserved, token_file,
          files, args, pc, loc, cstate, cinfo, propagated, hist, last>>

\* ------------------------------------------------------------ dictionaries
EmptyDict == [k \in {} |-> 0]

DictPut(d, k, v) == [x \in (DOMAIN d) \cup {k} |-> IF x = k THEN v ELSE d[x]]

\* d.values()
Range(f) == {f[x] : x \in DOMAIN f}

\* mutant: the eviction loops delete nothing
DictClear_Keep(d) == d

\* for old_key in list(d.keys()): del d[old_key]
DictClear(d) == [x \in (DOMAIN d) \ (DOMAIN d) |-> d[x]]

\* ----------------------------------------------------------------- values
\* use_float32 and is_video are what create_separation_task derives from the
\* form and the upload; is_video tells whether the uploaded file is a video
NoArgs ==
  [model_size |-> "", mode |-> "", chunk_duration |-> 0,
   use_float32 |-> FALSE, is_video |-> FALSE]

NoInfo == [progress |-> 0, message |-> <<>>, result |-> <<>>, error |-> <<>>]

InitLoc ==
  [device |-> "", dtype |-> "", hf_token |-> "", model_name |-> <<>>,
   new_model |-> 0, new_processor |-> 0, model |-> 0, processor |-> 0,
   n |-> 0, total_chunks |-> 0, i |-> 0, out_target |-> <<>>,
   out_residual |-> <<>>, exc |-> "",
   target_audio |-> <<>>, residual_audio |-> <<>>,
   \* for the properties: the percentages passed to update_progress, what
   \* the processor was handed, and the chunks the loop skipped
   emitted |-> <<>>, inputs |-> <<>>, skipped |-> <<>>,
   \* for the properties: what this call of get_or_load_lite_model did
   evicted |-> FALSE, loaded |-> FALSE]

NoHist ==
  [raised_in |-> "", cause |-> "", handler_cleanup |-> FALSE,
   audio_loaded |-> FALSE,
   \* a revoke for the task id is on its way to the worker
   cancel_requested |-> FALSE]

Running ==
  {"start", "initializing", "loading_model", "gol_create", "gol_convert",
   "loading_audio", "chunking", "single", "assembled", "save_original",
   "save_ghost", "save_clean", "complete", "returning", "except"}


\* the Job Controller stage a position belongs to
StageOf(p) ==
  CASE p \in {"start", "initializing"} -> "initializing"
    [] p \in {"loading_model", "gol_create", "gol_convert"} -> "loading_model"
    [] p = "loading_audio" -> "loading_audio"
    [] p \in {"chunking", "single"} -> "separating"
    [] p \in {"assembled", "save_original", "save_ghost", "save_clean"} -> "saving"
    [] OTHER -> "none"

\* the pool process runs one task at a time
WorkerIdle_Always == TRUE

WorkerIdle == \A k \in DOMAIN pc : pc[k] \notin Running

\* a fresh worker process and broker with room for the task ids in slots
InitOf(slots) ==
  /\ model_cache = EmptyDict
  /\ processor_cache = EmptyDict
  /\ cuda \in BOOLEAN
  /\ gpu_reserved = FALSE
  /\ token_file \in BOOLEAN
  /\ files = EmptyDict
  /\ args = [j \in slots |-> NoArgs]
  /\ pc = [j \in slots |-> "unsubmitted"]
  /\ loc = [j \in slots |-> InitLoc]
  /\ cstate = [j \in slots |-> "PENDING"]
  /\ cinfo = [j \in slots |-> NoInfo]
  /\ propagated = [j \in slots |-> <<>>]
  /\ hist = [j \in slots |-> NoHist]
  /\ last = 0

Init == InitOf(Jobs)

\* ------------------------------------------------------------- operators
\* model_name = f"facebook/sam-audio-{model_size}"
ModelName(model_size) == <<"facebook/sam-audio-", model_size>>

\* device = "cuda" if torch.cuda.is_available() else "cpu"
DeviceOf(is_cuda) == IF is_cuda THEN "cuda" ELSE "cpu"

\* dtype = torch.bfloat16 if device == "cuda" else torch.float32
DtypeOf(device) == IF device = "cuda" THEN "bfloat16" ELSE "float32"

\* dtype_str = "bf16" if dtype == torch.bfloat16 else "fp32"
DtypeStr(dtype) == IF dtype = "bfloat16" THEN "bf16" ELSE "fp32"

\* cache_key = f"{model_name}_lite_{device}_{dtype_str}"
CacheKey(model_name, device, dtype) ==
  <<model_name, "_lite_", device, DtypeStr(dtype)>>

\* the key task j asks get_or_load_lite_model for
KeyOf(j) == CacheKey(loc[j].model_name, loc[j].device, loc[j].dtype)

\* cleanup_gpu_memory(): empty_cache() only when CUDA is available
CleanupGpu(reserved) == IF cuda THEN FALSE ELSE reserved

\* raise Exception(f"Separation failed: {str(e)}")
WrapError(e) == <<"Separation failed: ", e>>

\* the dictionary separate_audio_task returns
ResultOf(j) ==
  [original_path |-> <<j, "original">>,
   ghost_path |-> <<j, "ghost">>,
   clean_path |-> <<j, "clean">>,
   mode |-> args[j].mode,
   model_size |-> args[j].model_size]

\* update_progress(progress, message): current_task.update_state("PROGRESS", meta)
ProgressInfo(p, m) ==
  [progress |-> p, message |-> m, result |-> <<>>, error |-> <<>>]

UpdateProgress(j, p, m) ==
  /\ cstate' = [cstate EXCEPT ![j] = "PROGRESS"]
  /\ cinfo' = [cinfo EXCEPT ![j] = ProgressInfo(p, m)]

\* len(torch.split(audio_tensor, MAX_CHUNK_SAMPLES)): ceil(n / MAX_CHUNK_SAMPLES)
TotalChunks(n) == (n + MAX_CHUNK_SAMPLES - 1) \div MAX_CHUNK_SAMPLES

\* mutant: every chunk is a full one
ChunkLen_Full(n, i) == MAX_CHUNK_SAMPLES

\* chunks[i].shape[-1]: full chunks, then the remainder
ChunkLen(n, i) ==
  IF (i + 1) * MAX_CHUNK_SAMPLES <= n
    THEN MAX_CHUNK_SAMPLES
    ELSE n - i * MAX_CHUNK_SAMPLES

\* chunk_duration = max(5.0, min(60.0, chunk_duration))
ClampDuration(d) == IF d < 5 THEN 5 ELSE IF d > 60 THEN 60 ELSE d

\* chunks[i]: a view of the loaded waveform
Chunk(n, i) ==
  [src |-> "audio", start |-> i * MAX_CHUNK_SAMPLES, len |-> ChunkLen(n, i)]

\* Python floats are IEEE-754 binary64.  A 53-bit significand is held as three
\* limbs <<a, b, c>> standing for a * 2^36 + b * 2^18 + c.
LIMB == 2^18

\* the e with 1 <= i * 2^e / total < 2, for 0 < i < total
FloatExp(i, total) ==
  CHOOSE e \in 1..13 : i * 2^e >= total /\ i * 2^(e - 1) < total

\* round to nearest, ties to even
FloatRoundUp(twice_rem, unit, kept) ==
  twice_rem > unit \/ (twice_rem = unit /\ kept % 2 = 1)

FloatCarry(a, b, c) ==
  LET b1 == b + (c \div LIMB)
  IN  <<a + (b1 \div LIMB), b1 % LIMB, c % LIMB>>

\* i / total_chunks: the significand of the quotient, scaled by 2^-(52 + e)
FloatDiv(i, total) ==
  LET e == FloatExp(i, total)
      r0 == i * 2^e - total
      a == 2^16 + ((r0 * 2^16) \div total)
      r1 == (r0 * 2^16) % total
      b == (r1 * LIMB) \div total
      r2 == (r1 * LIMB) % total
      c == (r2 * LIMB) \div total
      r3 == (r2 * LIMB) % total
  IN  FloatCarry(a, b, IF FloatRoundUp(2 * r3, total, c) THEN c + 1 ELSE c)

\* (...) * 50: the exact product, rounded back to 53 bits
FloatMul50(m) ==
  LET p == FloatCarry(m[1] * 50, m[2] * 50, m[3] * 50)
      d == IF p[1] >= 2^22 THEN 6 ELSE 5
      kept == p[3] \div 2^d
      low == p[3] % 2^d
  IN  FloatCarry(p[1], p[2],
        (IF FloatRoundUp(2 * low, 2^d, kept) THEN kept + 1 ELSE kept) * 2^d)

\* int(...): truncation
FloatInt(m, e) == m[1] \div 2^(16 + e)

\* mutant: the percentage counts down across the chunks
ChunkProgress_Descending(i, total) == 80 - ((i * 50) \div total)

\* chunk_progress = 30 + int((i / total_chunks) * 50)
ChunkProgress(i, total) ==
  IF i = 0
    THEN 30
    ELSE 30 + FloatInt(FloatMul50(FloatDiv(i, total)), FloatExp(i, total))

\* a tensor of samples: which value it is, its length, and whether every sample
\* lies in [-1, 1]
Tensor(name, len, in_range) == [name |-> name, len |-> len, in_range |-> in_range]

\* t.clamp(-1, 1)
Clamp(t) == [t EXCEPT !.in_range = TRUE]

\* sum of the lengths of a list of segments
RECURSIVE SumLen(_)
SumLen(segs) ==
  IF segs = <<>> THEN 0 ELSE segs[1].len + SumLen(Tail(segs))

\* mutant: a result is put at the front of the list
Capture_Front(list, seg) == <<seg>> \o list

\* out_target.append(result.target[0].cpu())
Capture(list, seg) == Append(list, seg)

\* what torchaudio.save puts in the file
Content(t) == [name |-> t.name, in_range |-> t.in_range]

\* the percentage just passed to update_progress, added to the task's record
Emit(l, p) == [l EXCEPT !.emitted = Append(@, p)]

\* result.state.lower() for the states get_task_status has no branch for
Lower(state) ==
  CASE state = "STARTED" -> "started"
    [] state = "REVOKED" -> "revoked"
    [] OTHER -> state

\* GET /api/tasks/{task_id}: the status and the progress of the answer
GetTaskStatus(j) ==
  CASE cstate[j] = "PENDING" -> [status |-> "pending", progress |-> 0]
    [] cstate[j] = "PROGRESS" ->
         [status |-> "processing", progress |-> cinfo[j].progress]
    [] cstate[j] = "SUCCESS" -> [status |-> "completed", progress |-> 100]
    [] cstate[j] = "FAILURE" -> [status |-> "failed", progress |-> 0]
    [] OTHER -> [status |-> Lower(cstate[j]), progress |-> 0]

FileTypes == {"original", "ghost", "clean", "video"}

\* mutant: the file is looked for before the state of the task
DownloadResult_FileFirst(j, file_type) ==
  IF file_type \notin FileTypes
    THEN [status_code |-> 400, detail |-> "Invalid file type", path |-> <<>>]
  ELSE IF <<j, file_type>> \in DOMAIN files
    THEN [status_code |-> 200, detail |-> "", path |-> <<j, file_type>>]
  ELSE [status_code |-> 404, detail |-> "Task not completed", path |-> <<>>]

\* the key separate_audio_task asks the cache for when it is given the
\* arguments a: the name from model_size, the device and the dtype from
\* torch.cuda.is_available() alone
RequestedKey(a) ==
  CacheKey(ModelName(a.model_size), DeviceOf(cuda), DtypeOf(DeviceOf(cuda)))

\* GET /api/tasks/{task_id}/download/{file_type}: the status code and the
\* detail of the answer, and the path of the file it serves
DownloadResult(j, file_type) ==
  IF file_type \notin FileTypes
    THEN [status_code |-> 400, detail |-> "Invalid file type", path |-> <<>>]
  ELSE IF cstate[j] # "SUCCESS"
    THEN [status_code |-> 404, detail |-> "Task not completed", path |-> <<>>]
  ELSE LET result == cinfo[j].result[1]
       IN  IF file_type = "video"
             THEN IF "video_path" \notin DOMAIN result
                    THEN [status_code |-> 404,
                          detail |-> "No video file for this task",
                          path |-> <<>>]
                  ELSE IF result["video_path"] \notin DOMAIN files
                    THEN [status_code |-> 404,
                          detail |-> "Video file not found", path |-> <<>>]
                  ELSE [status_code |-> 200, detail |-> "",
                        path |-> result["video_path"]]
             ELSE LET file_path ==
                        CASE file_type = "original" -> result.original_path
                          [] file_type = "ghost" -> result.ghost_path
                          [] OTHER -> result.clean_path
                  IN  IF file_path \notin DOMAIN files
                        THEN [status_code |-> 404, detail |-> "File not found",
                              path |-> <<>>]
                        ELSE [status_code |-> 200, detail |-> "",
                              path |-> file_path]

\* ---------------------------------------------------------------- actions
\* an exception raised inside the try block: control moves to the handler
\* The handler reads e and nothing else of the frame, so only e, and what
\* the properties ask about the cache call, is kept
Raise(j, e) ==
  /\ pc' = [pc EXCEPT ![j] = "except"]
  /\ loc' = [loc EXCEPT ![j] = [InitLoc EXCEPT !.exc = e,
                                               !.evicted = loc[j].evicted,
                                               !.loaded = loc[j].loaded]]
  /\ hist' = [hist EXCEPT ![j].raised_in = StageOf(pc[j]), ![j].cause = e]

\* create_separation_task: clamp chunk_duration, then apply_async with eight
\* positional arguments.  The task takes five: Celery checks the arguments
\* against the signature (Task.typing) and raises TypeError, nothing is queued
\* and the id stays PENDING
CreateSeparationTask(j) ==
  /\ pc[j] = "unsubmitted"
  /\ \A k \in DOMAIN pc : k < j => pc[k] # "unsubmitted"
  /\ \E size \in ModelSizes, mode \in Modes, chunk_duration \in ChunkDurations,
        use_float32 \in BOOLEAN, is_video \in BOOLEAN :
       args' = [args EXCEPT ![j] =
                  [model_size |-> size, mode |-> mode,
                   chunk_duration |-> ClampDuration(chunk_duration),
                   use_float32 |-> use_float32, is_video |-> is_video]]
  /\ pc' = [pc EXCEPT ![j] = "rejected"]
  /\ UNCHANGED <<model_cache, processor_cache, cuda, gpu_reserved,
                 token_file, files, loc, cstate, cinfo, propagated, hist, last>>

\* separate_audio_task.apply_async(args=[path, description, mode, anchors, size])
Submit(j) ==
  /\ pc[j] = "unsubmitted"
  /\ \A k \in DOMAIN pc : k < j => pc[k] # "unsubmitted"
  /\ \E size \in ModelSizes, mode \in Modes :
       args' = [args EXCEPT ![j] =
                  [NoArgs EXCEPT !.model_size = size, !.mode = mode]]
  /\ pc' = [pc EXCEPT ![j] = "queued"]
  /\ UNCHANGED <<model_cache, processor_cache, cuda, gpu_reserved,
                 token_file, files, loc, cstate, cinfo, propagated, hist, last>>

\* create_batch_separation: apply_async(args=[path, desc, mode, None, "small"])
\* for an upload that may be an audio or a video file
CreateBatchSeparation(j) ==
  /\ pc[j] = "unsubmitted"
  /\ \A k \in DOMAIN pc : k < j => pc[k] # "unsubmitted"
  /\ \E mode \in Modes, is_video \in BOOLEAN :
       args' = [args EXCEPT ![j] =
                  [NoArgs EXCEPT !.model_size = "small", !.mode = mode,
                                 !.is_video = is_video]]
  /\ pc' = [pc EXCEPT ![j] = "queued"]
  /\ UNCHANGED <<model_cache, processor_cache, cuda, gpu_reserved,
                 token_file, files, loc, cstate, cinfo, propagated, hist, last>>

\* the worker takes the task (task_track_started) and enters the function
Begin(j) ==
  /\ pc[j] = "queued"
  /\ WorkerIdle
  /\ pc' = [pc EXCEPT ![j] = "start"]
  /\ cstate' = [cstate EXCEPT ![j] = "STARTED"]
  /\ loc' = [loc EXCEPT ![j].device = DeviceOf(cuda),
                        ![j].dtype = DtypeOf(DeviceOf(cuda))]
  /\ last' = j
  /\ UNCHANGED <<model_cache, processor_cache, cuda, gpu_reserved,
                 token_file, files, args, cinfo, propagated, hist>>

\* update_progress(5, "Initializing...")
Initialize(j) ==
  /\ pc[j] = "start"
  /\ UpdateProgress(j, 5, <<"Initializing...">>)
  /\ loc' = [loc EXCEPT ![j] = Emit(@, 5)]
  /\ pc' = [pc EXCEPT ![j] = "initializing"]
  /\ UNCHANGED <<model_cache, processor_cache, cuda, gpu_reserved,
                 token_file, files, args, propagated, hist, last>>

\* mutant: a missing token file is not an error
LoadToken_TokenOptional(j) ==
  /\ pc[j] = "initializing"
  /\ \E login_ok \in BOOLEAN :
       IF login_ok \/ ~token_file
         THEN /\ loc' = [loc EXCEPT ![j].hf_token = "token",
                            ![j].model_name = ModelName(args[j].model_size),
                            ![j].emitted = Append(@, 10)]
              /\ UpdateProgress(j, 10,
                   <<"Loading ", ModelName(args[j].model_size), " (lite mode)...">>)
              /\ gpu_reserved' = CleanupGpu(gpu_reserved)
              /\ UNCHANGED hist
              /\ pc' = [pc EXCEPT ![j] = "loading_model"]
         ELSE /\ Raise(j, "login failed")
              /\ UNCHANGED <<cstate, cinfo, gpu_reserved>>
  /\ UNCHANGED <<model_cache, processor_cache, cuda, token_file, files,
                 args, propagated, last>>

\* read the token and log in, or raise; then progress 10 and cleanup_gpu_memory()
LoadToken(j) ==
  /\ pc[j] = "initializing"
  /\ \/ /\ token_file
        /\ \E login_ok \in BOOLEAN :
             IF login_ok
               THEN /\ loc' = [loc EXCEPT ![j].hf_token = "token",
                                  ![j].model_name = ModelName(args[j].model_size),
                                  ![j].emitted = Append(@, 10)]
                    /\ UpdateProgress(j, 10,
                         <<"Loading ", ModelName(args[j].model_size), " (lite mode)...">>)
                    /\ gpu_reserved' = CleanupGpu(gpu_reserved)
                    /\ UNCHANGED hist
                    /\ pc' = [pc EXCEPT ![j] = "loading_model"]
               ELSE /\ Raise(j, "login failed")
                    /\ UNCHANGED <<cstate, cinfo, gpu_reserved>>
     \/ /\ ~token_file
        /\ Raise(j, "HuggingFace token not found. Please authenticate first.")
        /\ UNCHANGED <<cstate, cinfo, gpu_reserved>>
  /\ UNCHANGED <<model_cache, processor_cache, cuda, token_file, files,
                 args, propagated, last>>

\* mutant: the membership test never finds the key
IsHit_Never(cache_key, cache) == FALSE

\* if cache_key not in _model_cache: ... else: cache hit
IsHit(cache_key, cache) == cache_key \in DOMAIN cache

\* mutant: the eviction guard is off by one
NeedsEvict_OffByOne(cache) == Cardinality(DOMAIN cache) > 1

\* if len(_model_cache) > 0: clear both caches
NeedsEvict(cache) == Cardinality(DOMAIN cache) > 0

\* get_or_load_lite_model, up to the call of create_lite_model: the key, the
\* membership test and, on a miss with a non-empty cache, the eviction
GolLookup(j) ==
  /\ pc[j] = "loading_model"
  /\ IF IsHit(KeyOf(j), model_cache)
       THEN \* cache hit: return _model_cache[cache_key], _processor_cache[model_name]
            /\ loc' = [loc EXCEPT ![j].model = model_cache[KeyOf(j)],
                                  ![j].processor = processor_cache[loc[j].model_name]]
            /\ pc' = [pc EXCEPT ![j] = "loading_audio"]
            /\ UNCHANGED <<model_cache, processor_cache, gpu_reserved>>
       ELSE /\ IF NeedsEvict(model_cache)
                 THEN /\ model_cache' = DictClear(model_cache)
                      /\ processor_cache' = DictClear(processor_cache)
                      /\ gpu_reserved' = CleanupGpu(cuda)
                      /\ loc' = [loc EXCEPT ![j].evicted = TRUE]
                 ELSE UNCHANGED <<model_cache, processor_cache, gpu_reserved, loc>>
            /\ pc' = [pc EXCEPT ![j] = "gol_create"]
  /\ UNCHANGED <<cuda, token_file, files, args, cstate, cinfo,
                 propagated, hist, last>>

\* identities of the objects alive in the process: a new object gets the
\* least identity no live object has
LeastFree(S) ==
  CHOOSE h \in 1..(Cardinality(S) + 1) :
    h \notin S /\ \A g \in 1..(h - 1) : g \in S

LiveModels ==
  Range(model_cache) \cup {loc[k].model : k \in DOMAIN loc}
    \cup {loc[k].new_model : k \in DOMAIN loc}

LiveProcessors ==
  Range(processor_cache) \cup {loc[k].processor : k \in DOMAIN loc}
    \cup {loc[k].new_processor : k \in DOMAIN loc}

\* mutant: the processor is registered as soon as it is created
GolCreate_StoreEarly(j) ==
  /\ pc[j] = "gol_create"
  /\ \E ok \in BOOLEAN :
       IF ok
         THEN /\ loc' = [loc EXCEPT ![j].new_model = LeastFree(LiveModels),
                                    ![j].new_processor = LeastFree(LiveProcessors),
                                    ![j].loaded = TRUE]
              /\ processor_cache' =
                   DictPut(processor_cache, loc[j].model_name,
                           LeastFree(LiveProcessors))
              /\ pc' = [pc EXCEPT ![j] = "gol_convert"]
              /\ UNCHANGED hist
         ELSE /\ Raise(j, "model load failed")
              /\ UNCHANGED processor_cache
  /\ UNCHANGED <<model_cache, cuda, gpu_reserved, token_file,
                 files, args, cstate, cinfo, propagated, last>>

\* model, processor = create_lite_model(model_name, hf_token)
GolCreate(j) ==
  /\ pc[j] = "gol_create"
  /\ \E ok \in BOOLEAN :
       IF ok
         THEN /\ loc' = [loc EXCEPT ![j].new_model = LeastFree(LiveModels),
                                    ![j].new_processor = LeastFree(LiveProcessors),
                                    ![j].loaded = TRUE]
              /\ pc' = [pc EXCEPT ![j] = "gol_convert"]
              /\ UNCHANGED hist
         ELSE Raise(j, "model load failed")
  /\ UNCHANGED <<model_cache, processor_cache, cuda, gpu_reserved, token_file,
                 files, args, cstate, cinfo, propagated, last>>

\* mutant: the model is stored and the processor is not
GolConvertStore_ModelOnly(j) ==
  /\ pc[j] = "gol_convert"
  /\ \E ok \in BOOLEAN :
       IF ok
         THEN /\ model_cache' = DictPut(model_cache, KeyOf(j), loc[j].new_model)
              /\ loc' = [loc EXCEPT ![j].model = loc[j].new_model,
                                    ![j].processor = loc[j].new_processor]
              /\ pc' = [pc EXCEPT ![j] = "loading_audio"]
              /\ UNCHANGED <<hist, processor_cache>>
         ELSE /\ Raise(j, "device transfer failed")
              /\ UNCHANGED <<model_cache, processor_cache>>
  /\ UNCHANGED <<cuda, gpu_reserved, token_file, files, args, cstate,
                 cinfo, propagated, last>>

\* model = model.eval().to(device, dtype); store both; return the cached pair
GolConvertStore(j) ==
  /\ pc[j] = "gol_convert"
  /\ \E ok \in BOOLEAN :
       IF ok
         THEN /\ model_cache' = DictPut(model_cache, KeyOf(j), loc[j].new_model)
              /\ processor_cache' =
                   DictPut(processor_cache, loc[j].model_name, loc[j].new_processor)
              /\ loc' = [loc EXCEPT ![j].model = loc[j].new_model,
                                    ![j].processor = loc[j].new_processor]
              /\ pc' = [pc EXCEPT ![j] = "loading_audio"]
              /\ UNCHANGED hist
         ELSE /\ Raise(j, "device transfer failed")
              /\ UNCHANGED <<model_cache, processor_cache>>
  /\ UNCHANGED <<cuda, gpu_reserved, token_file, files, args, cstate,
                 cinfo, propagated, last>>

\* update_progress(30); torchaudio.load, resample, mono; choose the branch
LoadAudioFrom(j, lens) ==
  /\ pc[j] = "loading_audio"
  /\ UpdateProgress(j, 30, <<"Loading audio...">>)
  /\ \/ \E n \in lens :
          /\ loc' = [loc EXCEPT ![j] =
                      [Emit(@, 30) EXCEPT
                         !.n = n,
                         !.total_chunks =
                           IF n > MAX_CHUNK_SAMPLES THEN TotalChunks(n) ELSE 0]]
          /\ pc' = [pc EXCEPT ![j] =
                      IF n > MAX_CHUNK_SAMPLES THEN "chunking" ELSE "single"]
          /\ hist' = [hist EXCEPT ![j].audio_loaded = TRUE]
     \/ Raise(j, "audio load failed")
  /\ UNCHANGED <<model_cache, processor_cache, cuda, gpu_reserved,
                 token_file, files, args, propagated, last>>

LoadAudio(j) == LoadAudioFrom(j, AudioLens)

\* the same step for a clip of many chunks
LoadLongAudio(j) == LoadAudioFrom(j, LongLens)

\* mutant: chunks under a minute are skipped
TooShort_Minute(len) == len < 60 * SampleRate

\* if chunk.shape[-1] < sample_rate: continue
TooShort(len) == len < SampleRate

\* one iteration of the loop over chunks: progress, skip or separate, capture.
\* The model's outputs are taken to be as long as its input.
ChunkStep(j) ==
  /\ pc[j] = "chunking"
  /\ loc[j].i < loc[j].total_chunks
  /\ UpdateProgress(j, ChunkProgress(loc[j].i, loc[j].total_chunks),
       <<"Processing chunk ", loc[j].i + 1, "/", loc[j].total_chunks, "...">>)
  /\ LET chunk == Chunk(loc[j].n, loc[j].i)
         l == Emit(loc[j], ChunkProgress(loc[j].i, loc[j].total_chunks))
     IN  IF TooShort(chunk.len)
           THEN \* continue
                /\ loc' = [loc EXCEPT ![j] =
                            [l EXCEPT !.i = @ + 1,
                                      !.skipped = Append(@, chunk)]]
                /\ UNCHANGED <<pc, gpu_reserved, hist>>
           ELSE \E ok \in BOOLEAN :
                  IF ok
                    THEN /\ loc' = [loc EXCEPT ![j] =
                                     [l EXCEPT
                                        !.i = @ + 1,
                                        !.inputs = Append(@, chunk),
                                        !.out_target =
                                          Capture(@, [chunk |-> loc[j].i,
                                                      len |-> chunk.len]),
                                        !.out_residual =
                                          Capture(@, [chunk |-> loc[j].i,
                                                      len |-> chunk.len])]]
                         /\ gpu_reserved' = CleanupGpu(cuda)
                         /\ UNCHANGED <<pc, hist>>
                    ELSE /\ Raise(j, "out of memory")
                         /\ gpu_reserved' = cuda
  /\ UNCHANGED <<model_cache, processor_cache, cuda, token_file, files,
                 args, propagated, last>>

\* torch.cat(out_target).clamp(-1, 1), torch.cat(out_residual).clamp(-1, 1): an
\* empty list raises.  Whether the samples the model returned stayed within
\* [-1, 1] is not known
Concat(j) ==
  /\ pc[j] = "chunking"
  /\ loc[j].i = loc[j].total_chunks
  /\ IF loc[j].out_target = <<>>
       THEN Raise(j, "nothing to concatenate")
       ELSE /\ \E in_range \in BOOLEAN :
                 loc' = [loc EXCEPT
                   ![j].target_audio =
                     Clamp(Tensor("target", SumLen(loc[j].out_target), in_range)),
                   ![j].residual_audio =
                     Clamp(Tensor("residual", SumLen(loc[j].out_residual), in_range))]
            /\ pc' = [pc EXCEPT ![j] = "assembled"]
            /\ UNCHANGED hist
  /\ UNCHANGED <<model_cache, processor_cache, cuda, gpu_reserved,
                 token_file, files, args, cstate, cinfo, propagated, last>>

\* update_progress(50); processor(audios=[audio_path]); one separation of what
\* the processor decoded from the file; result.target[0], result.residual[0]
SingleBatch(j) ==
  /\ pc[j] = "single"
  /\ UpdateProgress(j, 50, <<"Running separation...">>)
  /\ gpu_reserved' = cuda
  /\ LET input == [src |-> "audio_path", start |-> 0, len |-> loc[j].n]
         l == [Emit(loc[j], 50) EXCEPT !.inputs = Append(@, input)]
     IN  \E ok \in BOOLEAN :
           IF ok
             THEN /\ \E in_range \in BOOLEAN :
                       loc' = [loc EXCEPT ![j] =
                         [l EXCEPT
                            !.target_audio = Tensor("target", input.len, in_range),
                            !.residual_audio = Tensor("residual", input.len, in_range)]]
                  /\ pc' = [pc EXCEPT ![j] = "assembled"]
                  /\ UNCHANGED hist
             ELSE Raise(j, "out of memory")
  /\ UNCHANGED <<model_cache, processor_cache, cuda, token_file, files,
                 args, propagated, last>>

\* mutant: completion is announced before the files are written
StartSaving_Complete(j) ==
  /\ pc[j] = "assembled"
  /\ UpdateProgress(j, 100, <<"Complete!">>)
  /\ loc' = [loc EXCEPT ![j] = Emit(@, 100)]
  /\ pc' = [pc EXCEPT ![j] = "save_original"]
  /\ UNCHANGED <<model_cache, processor_cache, cuda, gpu_reserved,
                 token_file, files, args, propagated, hist, last>>

\* update_progress(80, "Saving results..."); the three output paths
StartSaving(j) ==
  /\ pc[j] = "assembled"
  /\ UpdateProgress(j, 80, <<"Saving results...">>)
  /\ loc' = [loc EXCEPT ![j] = Emit(@, 80)]
  /\ pc' = [pc EXCEPT ![j] = "save_original"]
  /\ UNCHANGED <<model_cache, processor_cache, cuda, gpu_reserved,
                 token_file, files, args, propagated, hist, last>>

\* mutant: a failed write is swallowed and the task goes on
SaveFile_Swallow(j, at, role, content, next) ==
  /\ pc[j] = at
  /\ \E ok \in BOOLEAN :
       /\ files' = IF ok THEN DictPut(files, <<j, role>>, content) ELSE files
       /\ pc' = [pc EXCEPT ![j] = next]
  /\ UNCHANGED <<model_cache, processor_cache, cuda, gpu_reserved,
                 token_file, args, loc, cstate, cinfo, propagated, hist, last>>

\* torchaudio.save(path, tensor, sample_rate): the file is written, or the call
\* raises and leaves no complete file
SaveFile(j, at, role, content, next) ==
  /\ pc[j] = at
  /\ \E ok \in BOOLEAN :
       IF ok
         THEN /\ files' = DictPut(files, <<j, role>>, content)
              /\ pc' = [pc EXCEPT ![j] = next]
              /\ UNCHANGED <<loc, hist>>
         ELSE /\ Raise(j, "write failed")
              /\ UNCHANGED files
  /\ UNCHANGED <<model_cache, processor_cache, cuda, gpu_reserved,
                 token_file, args, cstate, cinfo, propagated, last>>

\* torchaudio.save(str(original_path), audio.cpu(), sample_rate)
SaveOriginal(j) ==
  SaveFile(j, "save_original", "original", [name |-> "audio"], "save_ghost")

\* mutant: mode "remove" writes the residual as ghost
GhostTensor_ByMode(j) ==
  IF args[j].mode = "extract" THEN loc[j].target_audio ELSE loc[j].residual_audio

\* the tensor saved to ghost_path: target_audio in both branches of
\* "if mode == 'extract'"
GhostTensor(j) ==
  IF args[j].mode = "extract" THEN loc[j].target_audio ELSE loc[j].target_audio

\* the tensor saved to clean_path: residual_audio in both branches
CleanTensor(j) ==
  IF args[j].mode = "extract" THEN loc[j].residual_audio ELSE loc[j].residual_audio

SaveGhost(j) ==
  SaveFile(j, "save_ghost", "ghost", Content(GhostTensor(j)), "save_clean")

SaveClean(j) ==
  SaveFile(j, "save_clean", "clean", Content(CleanTensor(j)), "complete")

\* update_progress(100, "Complete!")
Complete(j) ==
  /\ pc[j] = "complete"
  /\ UpdateProgress(j, 100, <<"Complete!">>)
  /\ loc' = [loc EXCEPT ![j] = Emit(@, 100)]
  /\ pc' = [pc EXCEPT ![j] = "returning"]
  /\ UNCHANGED <<model_cache, processor_cache, cuda, gpu_reserved,
                 token_file, files, args, propagated, hist, last>>

\* gc.collect(); cleanup_gpu_memory(); return {...}: Celery stores SUCCESS
Return(j) ==
  /\ pc[j] = "returning"
  /\ gpu_reserved' = CleanupGpu(gpu_reserved)
  /\ UNCHANGED hist
  /\ cstate' = [cstate EXCEPT ![j] = "SUCCESS"]
  /\ cinfo' = [cinfo EXCEPT ![j] =
                 [progress |-> 0, message |-> <<>>, result |-> <<ResultOf(j)>>,
                  error |-> <<>>]]
  /\ pc' = [pc EXCEPT ![j] = "done"]
  /\ loc' = [loc EXCEPT ![j] = InitLoc]
  /\ UNCHANGED <<model_cache, processor_cache, cuda, token_file, files,
                 args, propagated, last>>

\* mutant: the handler re-raises without cleaning up
HandleException_NoCleanup(j) ==
  /\ pc[j] = "except"
  /\ propagated' = [propagated EXCEPT ![j] = Append(@, WrapError(loc[j].exc))]
  /\ cstate' = [cstate EXCEPT ![j] = "FAILURE"]
  /\ cinfo' = [cinfo EXCEPT ![j] =
                 [progress |-> 0, message |-> <<>>, result |-> <<>>,
                  error |-> WrapError(loc[j].exc)]]
  /\ pc' = [pc EXCEPT ![j] = "done"]
  /\ loc' = [loc EXCEPT ![j] = InitLoc]
  /\ UNCHANGED <<model_cache, processor_cache, cuda, gpu_reserved,
                 token_file, files, args, hist, last>>

\* except Exception as e: gc.collect(); cleanup_gpu_memory(); raise Exception(...)
\* Celery stores FAILURE with the exception that left the task
HandleException(j) ==
  /\ pc[j] = "except"
  /\ gpu_reserved' = CleanupGpu(gpu_reserved)
  /\ hist' = [hist EXCEPT ![j].handler_cleanup = TRUE]
  /\ propagated' = [propagated EXCEPT ![j] = Append(@, WrapError(loc[j].exc))]
  /\ cstate' = [cstate EXCEPT ![j] = "FAILURE"]
  /\ cinfo' = [cinfo EXCEPT ![j] =
                 [progress |-> 0, message |-> <<>>, result |-> <<>>,
                  error |-> WrapError(loc[j].exc)]]
  /\ pc' = [pc EXCEPT ![j] = "done"]
  /\ loc' = [loc EXCEPT ![j] = InitLoc]
  /\ UNCHANGED <<model_cache, processor_cache, cuda, token_file, files,
                 args, last>>

\* cancel_task: result.revoke(terminate=True).  A queued task is discarded; a
\* running one loses its pool process, and the process globals with it
CancelTask(j) ==
  /\ pc[j] \in Running \cup {"queued"}
  /\ pc' = [pc EXCEPT ![j] = "killed"]
  /\ cstate' = [cstate EXCEPT ![j] = "REVOKED"]
  /\ cinfo' = [cinfo EXCEPT ![j] = NoInfo]
  /\ loc' = [loc EXCEPT ![j] = InitLoc]
  /\ IF pc[j] \in Running
       THEN /\ model_cache' = EmptyDict
            /\ processor_cache' = EmptyDict
            /\ gpu_reserved' = FALSE
       ELSE UNCHANGED <<model_cache, processor_cache, gpu_reserved>>
  /\ hist' = [hist EXCEPT ![j] = NoHist]
  /\ UNCHANGED <<cuda, token_file, files, args, propagated, last>>

\* cancel_task as two steps.  result.revoke(terminate=True) broadcasts the
\* revoke and returns without waiting for a reply; the worker acts on it when
\* its consumer reads it, and until then the task keeps running
CancelTaskRequest(j) ==
  /\ pc[j] \in Running \cup {"queued"}
  /\ ~hist[j].cancel_requested
  /\ hist' = [hist EXCEPT ![j].cancel_requested = TRUE]
  /\ UNCHANGED <<model_cache, processor_cache, cuda, gpu_reserved, token_file,
                 files, args, pc, loc, cstate, cinfo, propagated, last>>

\* the worker reads the revoke: a task still queued or running is ended as in
\* CancelTask, a task that has finished is left as it is
Terminate(j) ==
  /\ hist[j].cancel_requested
  /\ CancelTask(j)

\* the result of a finished task expires (result_expires) and the model stops
\* tracking its id and its files: the slot then stands for a task id not yet used
Retire(j) ==
  /\ pc[j] \in {"done", "killed"}
  /\ pc' = [pc EXCEPT ![j] = "unsubmitted"]
  /\ args' = [args EXCEPT ![j] = NoArgs]
  /\ cstate' = [cstate EXCEPT ![j] = "PENDING"]
  /\ cinfo' = [cinfo EXCEPT ![j] = NoInfo]
  /\ propagated' = [propagated EXCEPT ![j] = <<>>]
  /\ hist' = [hist EXCEPT ![j] = NoHist]
  /\ files' = [f \in {g \in DOMAIN files : g[1] # j} |-> files[f]]
  /\ last' = IF last = j THEN 0 ELSE last
  /\ UNCHANGED <<model_cache, processor_cache, cuda, gpu_reserved,
                 token_file, loc>>

\* POST /api/auth/login: save_token(token)
AuthLogin ==
  /\ ~token_file
  /\ token_file' = TRUE
  /\ UNCHANGED <<model_cache, processor_cache, cuda, gpu_reserved, files,
                 args, pc, loc, cstate, cinfo, propagated, hist, last>>

\* POST /api/auth/logout: TOKEN_FILE.unlink()
AuthLogout ==
  /\ token_file
  /\ token_file' = FALSE
  /\ UNCHANGED <<model_cache, processor_cache, cuda, gpu_reserved, files,
                 args, pc, loc, cstate, cinfo, propagated, hist, last>>

Next ==
  \/ \E j \in Jobs :
       \/ Submit(j)
       \/ Begin(j)
       \/ Initialize(j)
       \/ LoadToken(j)
       \/ GolLookup(j)
       \/ GolCreate(j)
       \/ GolConvertStore(j)
       \/ LoadAudio(j)
       \/ ChunkStep(j)
       \/ Concat(j)
       \/ SingleBatch(j)
       \/ StartSaving(j)
       \/ SaveOriginal(j)
       \/ SaveGhost(j)
       \/ SaveClean(j)
       \/ Complete(j)
       \/ Return(j)
       \/ HandleException(j)
       \/ CancelTask(j)
       \/ Retire(j)
  \/ AuthLogin
  \/ AuthLogout

Spec == Init /\ [][Next]_vars

\* One task from submission to its end on a clip of many chunks: the same
\* steps, with the clip drawn from LongLens.
LongNext ==
  \E j \in {1} :
    \/ Submit(j)
    \/ Begin(j)
    \/ Initialize(j)
    \/ LoadToken(j)
    \/ GolLookup(j)
    \/ GolCreate(j)
    \/ GolConvertStore(j)
    \/ LoadLongAudio(j)
    \/ ChunkStep(j)
    \/ Concat(j)
    \/ SingleBatch(j)
    \/ StartSaving(j)
    \/ SaveOriginal(j)
    \/ SaveGhost(j)
    \/ SaveClean(j)
    \/ Complete(j)
    \/ Return(j)
    \/ HandleException(j)

LongSpec == Init /\ [][LongNext]_vars

\* Requests through the HTTP API and the runs of the tasks they queue, without
\* cancellation and expiry.
ApiNext ==
  \E j \in Jobs :
    \/ CreateSeparationTask(j)
    \/ CreateBatchSeparation(j)
    \/ Begin(j)
    \/ Initialize(j)
    \/ LoadToken(j)
    \/ GolLookup(j)
    \/ GolCreate(j)
    \/ GolConvertStore(j)
    \/ LoadAudio(j)
    \/ ChunkStep(j)
    \/ Concat(j)
    \/ SingleBatch(j)
    \/ StartSaving(j)
    \/ SaveOriginal(j)
    \/ SaveGhost(j)
    \/ SaveClean(j)
    \/ Complete(j)
    \/ Return(j)
    \/ HandleException(j)

ApiSpec == Init /\ [][ApiNext]_vars

\* the steps the worker takes on a task it was given
TaskStep(j) ==
  \/ Begin(j)
  \/ Initialize(j)
  \/ LoadToken(j)
  \/ GolLookup(j)
  \/ GolCreate(j)
  \/ GolConvertStore(j)
  \/ LoadAudio(j)
  \/ ChunkStep(j)
  \/ Concat(j)
  \/ SingleBatch(j)
  \/ StartSaving(j)
  \/ SaveOriginal(j)
  \/ SaveGhost(j)
  \/ SaveClean(j)
  \/ Complete(j)
  \/ Return(j)
  \/ HandleException(j)

\* Tasks and the cancel requests for them, the revoke travelling to the worker
\* while the task goes on.  The worker keeps executing the task it has, and
\* its consumer keeps reading the control messages sent to it.
CancelNext ==
  \E j \in Jobs :
    \/ Submit(j)
    \/ Begin(j)
    \/ Initialize(j)
    \/ LoadToken(j)
    \/ GolLookup(j)
    \/ GolCreate(j)
    \/ GolConvertStore(j)
    \/ LoadAudio(j)
    \/ ChunkStep(j)
    \/ Concat(j)
    \/ SingleBatch(j)
    \/ StartSaving(j)
    \/ SaveOriginal(j)
    \/ SaveGhost(j)
    \/ SaveClean(j)
    \/ Complete(j)
    \/ Return(j)
    \/ HandleException(j)
    \/ CancelTaskRequest(j)
    \/ Terminate(j)

CancelSpec ==
  /\ Init
  /\ [][CancelNext]_vars
  /\ \A j \in Jobs : WF_vars(TaskStep(j)) /\ WF_vars(Terminate(j))

\* Two task ids in the queue of one pool process: the second waits in the
\* queue while the first runs, and either may be cancelled.
PairJobs == {1, 2}

PairNext ==
  \E j \in PairJobs :
    \/ Submit(j)
    \/ Begin(j)
    \/ Initialize(j)
    \/ LoadToken(j)
    \/ GolLookup(j)
    \/ GolCreate(j)
    \/ GolConvertStore(j)
    \/ LoadAudio(j)
    \/ ChunkStep(j)
    \/ Concat(j)
    \/ SingleBatch(j)
    \/ StartSaving(j)
    \/ SaveOriginal(j)
    \/ SaveGhost(j)
    \/ SaveClean(j)
    \/ Complete(j)
    \/ Return(j)
    \/ HandleException(j)
    \/ CancelTask(j)

PairSpec == InitOf(PairJobs) /\ [][PairNext]_vars

\* ------------------------------------------------------------ properties
Stages == {"initializing", "loading_model", "loading_audio", "separating", "saving"}

\* positions of a task between the return of get_or_load_lite_model and its end
AfterLoad ==
  {"loading_audio", "chunking", "single", "assembled", "save_original",
   "save_ghost", "save_clean", "complete", "returning"}

\* task_id = self.request.id, as it would appear in a message
TaskId(j) == ToString(j)

Settled(j) == pc[j] = "done"

\* C1: in every reachable state the process-wide cache holds at most one model
\* and at most one processor, whatever mix of hits, misses and failed loads
\* came before.
C1_AtMostOneSlot ==
  /\ Cardinality(DOMAIN model_cache) <= 1
  /\ Cardinality(DOMAIN processor_cache) <= 1

\* C1 witness: a task evicted the slot an earlier task had left, loaded its own
\* model, and the cache holds exactly one entry of each kind.
C1_Witness ==
  \E j \in Jobs :
    /\ pc[j] = "loading_audio"
    /\ loc[j].evicted
    /\ loc[j].loaded
    /\ Cardinality(DOMAIN model_cache) = 1
    /\ Cardinality(DOMAIN processor_cache) = 1

\* C2: a call whose key is the cached slot's key returns exactly the cached
\* model and processor handles, loads nothing, evicts nothing and leaves both
\* caches unchanged.
C2_HitReturnsCached ==
  [][\A j \in Jobs :
       (/\ pc[j] = "loading_model"
        /\ pc'[j] \notin {"loading_model", "killed"}
        /\ KeyOf(j) \in DOMAIN model_cache)
       => (/\ pc'[j] = "loading_audio"
           /\ model_cache' = model_cache
           /\ processor_cache' = processor_cache
           /\ ~loc'[j].loaded /\ ~loc'[j].evicted
           /\ loc'[j].model = model_cache[KeyOf(j)]
           /\ loc'[j].processor = processor_cache[loc[j].model_name])]_vars

\* C2 witness: right after the call a task holds the cached handles although it
\* loaded nothing itself: an earlier task had loaded them.
C2_Witness ==
  \E j \in Jobs :
    /\ pc[j] = "loading_audio"
    /\ ~loc[j].loaded
    /\ loc[j].model # 0
    /\ loc[j].model = model_cache[KeyOf(j)]
    /\ loc[j].processor = processor_cache[loc[j].model_name]

\* C3: on a miss the existing slot is gone before the load starts, and after a
\* successful load the cache holds only the slot of the requested key, so two
\* consecutive tasks with different model_size never have two models registered.
C3_EvictBeforeLoad ==
  \A j \in Jobs :
    /\ pc[j] \in {"gol_create", "gol_convert"}
         => (DOMAIN model_cache = {} /\ DOMAIN processor_cache = {})
    /\ pc[j] \in AfterLoad
         => /\ DOMAIN model_cache =
                 {<<ModelName(args[j].model_size), "_lite_", DeviceOf(cuda),
                    IF cuda THEN "bf16" ELSE "fp32">>}
            /\ DOMAIN processor_cache = {ModelName(args[j].model_size)}

\* C3 witness: the load for a new key is about to start, and the call has just
\* evicted the slot an earlier task had registered.
C3_Witness ==
  \E j \in Jobs :
    /\ pc[j] = "gol_create"
    /\ loc[j].evicted

\* C4: when create_lite_model or the move to the device raises on a miss, the
\* error propagates to the task and both caches are empty afterwards, so the
\* next request takes the miss path.
C4_LoadFailureEmptiesCache ==
  \A j \in Jobs :
    (hist[j].raised_in = "loading_model" /\ last = j)
      => /\ pc[j] \in {"except", "done", "killed"}
         /\ DOMAIN model_cache = {}
         /\ DOMAIN processor_cache = {}
         /\ pc[j] = "done"
              => (cstate[j] = "FAILURE" /\ Len(propagated[j]) = 1)

\* C4 witness: the move to the device failed for a task that had evicted the
\* slot of an earlier task, and the exception is on its way out of the task.
C4_Witness ==
  \E j \in Jobs :
    /\ last = j
    /\ pc[j] = "except"
    /\ loc[j].evicted
    /\ hist[j].raised_in = "loading_model"
    /\ hist[j].cause = "device transfer failed"

\* C5 (as claimed): after an allocation failure during inference the cached
\* slot has been evicted and device memory released by the time the error left
\* the task.
C5_EvictOnDeviceMemoryError ==
  \A j \in Jobs :
    (/\ Settled(j)
     /\ last = j
     /\ hist[j].raised_in = "separating"
     /\ hist[j].cause = "out of memory")
      => (DOMAIN model_cache = {} /\ ~gpu_reserved)

\* C6: an exception raised in any stage makes the cleanup run and exactly one
\* wrapped error leave the task, and the task settles as failed; a task that
\* raised never reports completed and keeps no result.
C6_FailureSettles ==
  \A j \in Jobs :
    /\ pc[j] = "except" => (hist[j].raised_in \in Stages /\ cstate[j] # "SUCCESS")
    /\ (Settled(j) /\ hist[j].raised_in # "")
         => /\ hist[j].raised_in \in Stages
            /\ cstate[j] = "FAILURE"
            /\ propagated[j] = <<(<<"Separation failed: ", hist[j].cause>>)>>
            /\ cinfo[j].error = <<"Separation failed: ", hist[j].cause>>
            /\ cinfo[j].result = <<>>
            /\ hist[j].handler_cleanup
            /\ last = j => ~gpu_reserved
    /\ cstate[j] = "SUCCESS" => (hist[j].raised_in = "" /\ propagated[j] = <<>>)
    /\ cstate[j] = "FAILURE" => hist[j].raised_in # ""

\* C6 witness: a task whose separation raised on a CUDA device has settled.
C6_Witness ==
  \E j \in Jobs :
    /\ cuda
    /\ Settled(j)
    /\ hist[j].raised_in = "separating"
    /\ hist[j].audio_loaded

\* C7 (as claimed): the error of a failed task carries the task id and the name
\* of the stage that raised.
C7_ErrorNamesJobAndStage ==
  \A j \in Jobs :
    cstate[j] = "FAILURE"
      => /\ TaskId(j) \in Range(cinfo[j].error)
         /\ hist[j].raised_in \in Range(cinfo[j].error)

\* C8 (as claimed): in every reachable state the ghost and the clean artifact of
\* a task both exist or neither does.
C8_GhostAndCleanTogether ==
  \A j \in Jobs : (<<j, "ghost">> \in DOMAIN files) <=> (<<j, "clean">> \in DOMAIN files)

\* C9 (as claimed): once a task is past the audio-loaded stage its original
\* artifact exists.
C9_OriginalAfterAudioLoaded ==
  \A j \in Jobs : hist[j].audio_loaded => <<j, "original">> \in DOMAIN files

\* C10: a completed task's result names three paths that were all written, and
\* a task in which a write failed settles as failed with no result.
C10_ResultOnlyAfterWrites ==
  \A j \in Jobs :
    /\ cstate[j] = "SUCCESS"
         => /\ Len(cinfo[j].result) = 1
            /\ cinfo[j].result[1].original_path = <<j, "original">>
            /\ cinfo[j].result[1].ghost_path = <<j, "ghost">>
            /\ cinfo[j].result[1].clean_path = <<j, "clean">>
            /\ {cinfo[j].result[1].original_path, cinfo[j].result[1].ghost_path,
                cinfo[j].result[1].clean_path} \subseteq DOMAIN files
    /\ cinfo[j].result # <<>> => cstate[j] = "SUCCESS"
    /\ (Settled(j) /\ hist[j].raised_in = "saving")
         => (cstate[j] = "FAILURE" /\ cinfo[j].result = <<>>)

\* C10 witness: a task completed and its result names its three artifacts.
C10_Witness ==
  \E j \in Jobs :
    /\ cstate[j] = "SUCCESS"
    /\ cinfo[j].result # <<>>
    /\ {<<j, "original">>, <<j, "ghost">>, <<j, "clean">>} \subseteq DOMAIN files

\* positions of a task after the separation, while its frame is alive
AfterSeparation ==
  {"assembled", "save_original", "save_ghost", "save_clean", "complete",
   "returning"}

\* C11: on every path the percentages passed to update_progress never decrease
\* from one call to the next, and each lies in 0..100.
C11_ProgressNonDecreasing ==
  [][\A j \in Jobs :
       (cstate'[j] = "PROGRESS" /\ cinfo'[j] # cinfo[j])
         => /\ cinfo'[j].progress \in 0..100
            /\ cstate[j] = "PROGRESS"
                 => cinfo'[j].progress >= cinfo[j].progress]_vars

\* C11 witness: a task went through a clip of fifty chunks or more up to its
\* last update.
C11_Witness ==
  \E j \in Jobs :
    /\ pc[j] = "returning"
    /\ loc[j].total_chunks >= 50
    /\ cinfo[j].progress = 100

\* C12 (as claimed): the progress get_task_status reports for a task id never
\* decreases from one query to the next.
C12_StatusProgressNeverDecreases ==
  [][\A j \in Jobs :
       pc'[j] # "unsubmitted"
         => GetTaskStatus(j)'.progress >= GetTaskStatus(j).progress]_vars

\* the percentages C13 states for a clip of total chunks
ClaimedChunkedSequence(total) ==
  <<5, 10, 30>>
    \o [k \in 1..total |-> 30 + ((50 * (k - 1)) \div total)]
    \o <<80, 100>>

\* C13 (as claimed): a task that succeeds on the chunked path has emitted 5,
\* 10, 30, then 30 + floor(50 * i / N) for each chunk i of N, then 80 and 100.
C13_ChunkedProgressSequence ==
  \A j \in Jobs :
    (pc[j] = "returning" /\ loc[j].total_chunks > 0)
      => loc[j].emitted = ClaimedChunkedSequence(loc[j].total_chunks)

\* C14 (as claimed): a clip no longer than one chunk is separated by one
\* inference call outside the chunk loop, and no percentage strictly between
\* 30 and 80 is emitted for it.
C14_SingleBatchJumps30To80 ==
  \A j \in Jobs :
    (pc[j] \in AfterSeparation /\ loc[j].n <= MAX_CHUNK_SAMPLES)
      => /\ loc[j].total_chunks = 0
         /\ Len(loc[j].inputs) = 1
         /\ \A k \in 1..Len(loc[j].emitted) :
              ~(30 < loc[j].emitted[k] /\ loc[j].emitted[k] < 80)

\* C15 (as claimed): a clip of at most chunk_duration * sample_rate samples is
\* separated as one chunk, and that chunk is the whole loaded waveform.
C15_ShortClipIsOneWholeChunk ==
  \A j \in Jobs :
    (pc[j] \in AfterSeparation /\ loc[j].n <= MAX_CHUNK_SAMPLES)
      => loc[j].inputs = <<[src |-> "audio", start |-> 0, len |-> loc[j].n]>>

\* the chunks of a clip of n samples with index below upto, kept or skipped
ChunksBelow(n, upto, kept) ==
  SelectSeq([k \in 1..upto |-> Chunk(n, k - 1)],
            LAMBDA c : (c.len >= SampleRate) = kept)

\* C16: the chunks of a clip longer than one chunk start at 0, each starts where
\* the one before ends, and the last ends at the end of the clip; the chunks
\* the loop has separated and the ones it has skipped are exactly the chunks
\* seen so far, in order, split by the one-second test, so once the loop is
\* over their lengths add up to the length of the clip.  The boundaries are
\* computed from the length, the sample rate and the chunk duration alone.
C16_ChunksPartitionTheClip ==
  \A j \in Jobs :
    (pc[j] \in {"chunking"} \cup AfterSeparation /\ loc[j].total_chunks > 0)
      => /\ Chunk(loc[j].n, 0).start = 0
         /\ \A k \in 0..(loc[j].total_chunks - 1) :
              /\ Chunk(loc[j].n, k).len > 0
              /\ Chunk(loc[j].n, k).len <= CHUNK_DURATION * SampleRate
              /\ Chunk(loc[j].n, k).start + Chunk(loc[j].n, k).len =
                   IF k + 1 < loc[j].total_chunks
                     THEN Chunk(loc[j].n, k + 1).start
                     ELSE loc[j].n
         /\ loc[j].inputs = ChunksBelow(loc[j].n, loc[j].i, TRUE)
         /\ loc[j].skipped = ChunksBelow(loc[j].n, loc[j].i, FALSE)
         /\ loc[j].i = loc[j].total_chunks
              => SumLen(loc[j].inputs) + SumLen(loc[j].skipped) = loc[j].n

\* C16 witness: the loop is over for a clip of which it separated a chunk and
\* skipped the last one, shorter than a second.
C16_Witness ==
  \E j \in Jobs :
    /\ pc[j] = "chunking"
    /\ loc[j].i = loc[j].total_chunks
    /\ Len(loc[j].inputs) >= 1
    /\ Len(loc[j].skipped) = 1

\* C17 (as claimed): the worker's full chunk is as long as the chunk_duration
\* the request carried, times the sample rate.
C17_ChunkLengthFollowsRequest ==
  \A j \in Jobs :
    args[j].chunk_duration # 0
      => MAX_CHUNK_SAMPLES = args[j].chunk_duration * SampleRate

\* C18: while the loop runs, every chunk handed to the model so far has index
\* below the loop index and has its target and its residual in the lists, one
\* of each per chunk, in ascending chunk index; the concatenated target and
\* residual are as long as the separated chunks together.
C18_ChunksInOrder ==
  \A j \in Jobs :
    (pc[j] \in {"chunking", "assembled"} /\ loc[j].total_chunks > 0)
      => /\ Len(loc[j].out_target) = Len(loc[j].inputs)
         /\ Len(loc[j].out_residual) = Len(loc[j].inputs)
         /\ \A k \in 1..Len(loc[j].inputs) :
              /\ loc[j].out_target[k].chunk < loc[j].i
              /\ loc[j].out_target[k].chunk * MAX_CHUNK_SAMPLES =
                   loc[j].inputs[k].start
              /\ loc[j].out_residual[k].chunk = loc[j].out_target[k].chunk
              /\ k > 1 => loc[j].out_target[k - 1].chunk
                            < loc[j].out_target[k].chunk
         /\ pc[j] = "assembled"
              => /\ loc[j].target_audio.len = SumLen(loc[j].inputs)
                 /\ loc[j].residual_audio.len = SumLen(loc[j].inputs)

\* C18 witness: the outputs of three chunks or more have been concatenated.
C18_Witness ==
  \E j \in Jobs :
    /\ pc[j] = "assembled"
    /\ Len(loc[j].out_target) >= 3
    /\ loc[j].target_audio.len > 2 * MAX_CHUNK_SAMPLES

\* C19 (as claimed): the ghost and the clean artifact of a completed task hold
\* samples within [-1, 1] only.
C19_ArtifactsWithinRange ==
  \A j \in Jobs :
    cstate[j] = "SUCCESS"
      => /\ files[<<j, "ghost">>].in_range
         /\ files[<<j, "clean">>].in_range

\* C20: whatever the mode, the ghost artifact holds the model's target and the
\* clean artifact the model's residual, as the task computed them.
C20_ModeDoesNotChangeRoles ==
  \A j \in Jobs :
    /\ <<j, "ghost">> \in DOMAIN files
         => /\ files[<<j, "ghost">>].name = "target"
            /\ pc[j] \in AfterSeparation
                 => files[<<j, "ghost">>] = Content(loc[j].target_audio)
    /\ <<j, "clean">> \in DOMAIN files
         => /\ files[<<j, "clean">>].name = "residual"
            /\ pc[j] \in AfterSeparation
                 => files[<<j, "clean">>] = Content(loc[j].residual_audio)

\* C20 witness: a task run with mode "remove" completed with the target in its
\* ghost artifact.
C20_Witness ==
  \E j \in Jobs :
    /\ args[j].mode = "remove"
    /\ cstate[j] = "SUCCESS"
    /\ files[<<j, "ghost">>].name = "target"
    /\ files[<<j, "clean">>].name = "residual"

\* C21: two tasks of one pool process are never inside get_or_load_lite_model
\* at the same time, and model_cache never holds two entries, however the two
\* tasks are submitted, run and cancelled
LoadSection == {"loading_model", "gol_create", "gol_convert"}

C22_CancelSettlesNotCompleted ==
  \A j \in Jobs :
    /\ [](hist[j].cancel_requested => GetTaskStatus(j).status # "completed")
    /\ (hist[j].cancel_requested
          ~> GetTaskStatus(j).status \in {"revoked", "failed"})

\* requests made through create_separation_task
FromCreateSeparationTask(j) == args[j].chunk_duration # 0

\* C23 (as claimed): a request made through create_separation_task is accepted
\* by separate_audio_task, and once its run has ended without a failure the
\* job is completed with progress 100
C23_RequestsAreAccepted ==
  \A j \in Jobs :
    FromCreateSeparationTask(j)
      => /\ pc[j] # "rejected"
         /\ (pc[j] = "done" /\ hist[j].cause = "")
              => GetTaskStatus(j) = [status |-> "completed", progress |-> 100]

\* the precision a request asks for
RequestedPrecision(a) == IF a.use_float32 THEN "fp32" ELSE "bf16"

\* C24 (as claimed): the precision in the cache key the worker builds for a
\* request is the precision the request was submitted with
C24_KeyPrecisionFollowsRequest ==
  \A j \in Jobs :
    FromCreateSeparationTask(j)
      => RequestedKey(args[j])[4] = RequestedPrecision(args[j])

\* C25 (as claimed): the result of a completed job whose upload was a video
\* carries a video path, and download_result serves it for file type video
C25_VideoJobsServeTheirVideo ==
  \A j \in Jobs :
    (cstate[j] = "SUCCESS" /\ args[j].is_video)
      => /\ "video_path" \in DOMAIN cinfo[j].result[1]
         /\ DownloadResult(j, "video").status_code = 200

\* C26: in the chunk loop only the last chunk of the clip is ever skipped, so
\* at most one chunk is skipped, the first chunk is always separated, and
\* out_target and out_residual are non-empty when they are concatenated
C26_OnlyLastChunkSkipped ==
  \A j \in Jobs :
    /\ hist[j].cause # "nothing to concatenate"
    /\ (pc[j] \in {"chunking", "assembled"} /\ loc[j].total_chunks > 0)
         => /\ loc[j].n > MAX_CHUNK_SAMPLES
            /\ Len(loc[j].skipped) <= 1
            /\ \A k \in 1..Len(loc[j].skipped) :
                 loc[j].skipped[k].start
                   = (loc[j].total_chunks - 1) * MAX_CHUNK_SAMPLES
            /\ loc[j].i >= 1
                 => (loc[j].out_target # <<>> /\ loc[j].out_residual # <<>>)

\* a clip whose last chunk was skipped has been concatenated from the others
C26_Witness ==
  \E j \in Jobs :
    /\ pc[j] = "assembled"
    /\ Len(loc[j].skipped) = 1
    /\ TooShort(loc[j].skipped[1].len)
    /\ Len(loc[j].out_target) = loc[j].total_chunks - 1

\* the model names that have an entry in model_cache
CachedModelNames == {key[1] : key \in DOMAIN model_cache}

\* C27: whenever no task is inside get_or_load_lite_model, model_cache has an
\* entry for a key built from a model name exactly when processor_cache has an
\* entry for that name; a task about to take the hit path finds its processor
C27_CachesPaired ==
  /\ (\A k \in Jobs : pc[k] \notin LoadSection)
       => CachedModelNames = DOMAIN processor_cache
  /\ \A j \in Jobs :
       (pc[j] = "loading_model" /\ IsHit(KeyOf(j), model_cache))
         => loc[j].model_name \in DOMAIN processor_cache

\* a task has left get_or_load_lite_model after evicting one pair and storing
\* its own
C27_Witness ==
  \E j \in Jobs :
    /\ pc[j] = "loading_audio"
    /\ loc[j].evicted /\ loc[j].loaded
    /\ DOMAIN processor_cache = {loc[j].model_name}
    /\ DOMAIN model_cache = {KeyOf(j)}

TokenNotFound == "HuggingFace token not found. Please authenticate first."

\* C28: a task that finds no token file leaves the initializing stage for the
\* exception handler with 5 as the only progress update it made, and from
\* there fails; in neither step is get_or_load_lite_model entered, a cache
\* changed or a file written, and the task has no artifact
C28_MissingTokenFailsEarly ==
  [][\A j \in Jobs :
       /\ (pc[j] = "initializing" /\ ~token_file
             /\ pc'[j] \notin {"initializing", "killed"})
            => /\ pc'[j] = "except"
               /\ loc'[j].exc = TokenNotFound
               /\ hist'[j].raised_in = "initializing"
               /\ loc[j].emitted = <<5>>
               /\ cstate'[j] = "PROGRESS" /\ cinfo'[j].progress = 5
               /\ ~loc'[j].loaded /\ ~loc'[j].evicted
               /\ model_cache' = model_cache
               /\ processor_cache' = processor_cache
               /\ files' = files
               /\ \A f \in DOMAIN files' : f[1] # j
       /\ (pc[j] = "except" /\ hist[j].cause = TokenNotFound /\ pc'[j] = "done")
            => /\ cstate'[j] = "FAILURE"
               /\ model_cache' = model_cache
               /\ processor_cache' = processor_cache
               /\ files' = files
               /\ \A f \in DOMAIN files' : f[1] # j
  ]_vars

\* a task has failed for want of the token while the cache still holds the
\* model an earlier task loaded
C28_Witness ==
  \E j \in Jobs :
    /\ pc[j] = "done"
    /\ hist[j].cause = TokenNotFound
    /\ cstate[j] = "FAILURE"
    /\ DOMAIN model_cache # {}
    /\ DOMAIN processor_cache # {}

Artifacts == {"original", "ghost", "clean"}

\* C29: a job whose status shows progress 100, from the last update_progress
\* or from the stored result, has its original, ghost and clean files written
C29_Progress100AfterArtifacts ==
  \A j \in Jobs :
    (GetTaskStatus(j).progress = 100 \/ 100 \in Range(loc[j].emitted))
      => \A role \in Artifacts : <<j, role>> \in DOMAIN files

\* update 100 has been made and the task has not yet returned
C29_Witness ==
  \E j \in Jobs :
    /\ pc[j] = "returning"
    /\ cstate[j] = "PROGRESS" /\ cinfo[j].progress = 100
    /\ \A role \in Artifacts : <<j, role>> \in DOMAIN files

\* the file types a request may name: the four the handler knows and another
RequestedFileTypes == FileTypes \cup {"other"}

\* C30: download_result answers 200 with a file only for a task whose state is
\* SUCCESS; in any other state every request with a known file type is
\* answered 404, and a request with an unknown file type is answered 400
\* whatever the state
C30_DownloadOnlyWhenCompleted ==
  \A j \in Jobs : \A file_type \in RequestedFileTypes :
    LET answer == DownloadResult(j, file_type)
    IN  /\ file_type \notin FileTypes => answer.status_code = 400
        /\ (file_type \in FileTypes /\ cstate[j] # "SUCCESS")
             => answer.status_code = 404
        /\ answer.status_code = 200
             => (cstate[j] = "SUCCESS" /\ answer.path \in DOMAIN files)

\* a failed task whose original file is on disk: the download is refused
C30_Witness ==
  \E j \in Jobs :
    /\ cstate[j] = "FAILURE"
    /\ <<j, "original">> \in DOMAIN files
    /\ DownloadResult(j, "original").status_code = 404
    /\ DownloadResult(j, "other").status_code = 400

====
